---- MODULE Spec2Model ----
(***************************************************************************)
(* Model of the ThoughtTree component (src/components/ThoughtTree.tsx)     *)
(* over the ThoughtNode data model (src/models/ThoughtNode.ts).            *)
(*                                                                         *)
(* Part 1: the flatten effect (processNode), a pure function of the forest.*)
(* Part 2: the layout effect, its force simulation and the drag handlers.  *)
(***************************************************************************)
EXTENDS Integers, Sequences, FiniteSets, TLC

\* ------------------------------------------------------------------ bounds
NumIds == 3        \* ThoughtNode objects in the universe, ids 1..NumIds
MaxRoots == 1      \* longest rootThoughts list drawn
MaxDepth == 2      \* largest maxVisibleDepth drawn
MaxStack == 12     \* call-stack capacity (frames of processNode) of the engine
MaxPoint == 1      \* positions are the points 0..MaxPoint of the canvas diagonal
MaxPointers == 1   \* pointers that can drag at the same time
MaxZombies == 1    \* simulations left running after their cleanup, at the same time

Ids == 1..NumIds
None == 0          \* an absent aliasNode (undefined)

VARIABLES
    subThoughts,      \* ThoughtNode.subThoughts : id -> sequence of ids
    aliasNode,        \* ThoughtNode.aliasNode   : id -> id or None
    rootThoughts,     \* prop rootThoughts
    maxVisibleDepth,  \* prop maxVisibleDepth
    nodes,            \* React state nodes : sequence of D3Node
    links,            \* React state links : sequence of D3Link
    passes,           \* "none" before the flatten effect has run, then "done"
    overflow,         \* the flatten pass exhausted the call stack (RangeError)
    stackPeak,        \* most processNode frames on the stack during the last pass
    mounted,          \* "no" before the first commit, "yes", "gone" after unmount
    layoutPending,    \* setNodes/setLinks committed, layout effect not yet re-run
    heap,             \* oid -> [x, y, fx, fy]: the mutable fields of live D3Nodes
    dom,              \* what the svg holds: bound nodes, links, and whose handlers
    sims,             \* simulation id -> the simulation of one layout-effect run
    cur,              \* the simulation the registered cleanup will stop, or 0
    gestures          \* oid -> the drag gesture in progress on that node

fvars == <<subThoughts, aliasNode, rootThoughts, maxVisibleDepth, nodes, links,
           passes, overflow, stackPeak>>

uvars == <<mounted, layoutPending, heap, dom, sims, cur, gestures>>

vars == <<fvars, uvars>>

\* ------------------------------------------------------------- sequences
Range(s) == {s[i] : i \in 1..Len(s)}

SeqsUpTo(S, n) == UNION {[1..k -> S] : k \in 0..n}

Min(S) == CHOOSE x \in S : \A y \in S : x <= y

RECURSIVE SortedSeq(_)
SortedSeq(S) ==
    IF S = {} THEN <<>> ELSE LET m == Min(S) IN <<m>> \o SortedSeq(S \ {m})

\* ------------------------------------------------------------- D3 objects
\* A D3Node object: oid is the object's identity (each object literal is a
\* new object), id the ThoughtNode id it wraps.  type, content, status and
\* recursionDepth are copies of fields of the ThoughtNode and are read by the
\* drawing code only.
Undefined == [oid |-> 0, id |-> 0, reflexive |-> FALSE]

NewOid(used, d3Nodes) ==
    Min((1..(Cardinality(used) + Len(d3Nodes) + 1))
          \ (used \cup {d3Nodes[k].oid : k \in 1..Len(d3Nodes)}))

MakeD3Node(node, used, d3Nodes) ==
    [oid |-> NewOid(used, d3Nodes), id |-> node, reflexive |-> aliasNode[node] # None]

\* (mutant) the depth test is off by one
DepthExceededLate(depth, maxDepth) == depth > maxDepth + 1

\* if (depth > maxVisibleDepth) return;
DepthExceeded(depth, maxDepth) == depth > maxDepth

\* d3Nodes.find(n => n.id === id)
FindNode(d3Nodes, id) ==
    IF \E k \in 1..Len(d3Nodes) : d3Nodes[k].id = id
    THEN d3Nodes[Min({k \in 1..Len(d3Nodes) : d3Nodes[k].id = id})]
    ELSE Undefined

\* d3Links.some(link => (source.id === a && target.id === b) || (target.id === a && source.id === b))
LinkExists(d3Links, a, b) ==
    \E k \in 1..Len(d3Links) :
        \/ d3Links[k].source.id = a /\ d3Links[k].target.id = b
        \/ d3Links[k].target.id = a /\ d3Links[k].source.id = b

SubLink(d3Node, subNode) == [source |-> d3Node, target |-> subNode, isAlias |-> FALSE]

\* (mutant) the alias link is pushed with its ends swapped
AliasLinkSwapped(d3Node, aliasD3Node) ==
    [source |-> aliasD3Node, target |-> d3Node, isAlias |-> TRUE]

AliasLink(d3Node, aliasD3Node) == [source |-> d3Node, target |-> aliasD3Node, isAlias |-> TRUE]

\* The state of one flatten pass: the two arrays the closure pushes to,
\* whether the recursion ran out of stack, and the deepest recursion so far.
EmptyPass == [nodes |-> <<>>, links |-> <<>>, overflow |-> FALSE, peak |-> 0]

RECURSIVE ProcessNode(_, _, _, _, _, _)
RECURSIVE ProcessSubs(_, _, _, _, _, _, _, _)

\* (mutant) the alias target is visited without looking it up first
ResolveAliasNoFind(target, depth, maxDepth, used, st, nest) ==
    ProcessNode(target, depth, maxDepth, used, st, nest + 1)

\* d3Nodes.find(n => n.id === node.aliasNode.id) || processNode(node.aliasNode, depth)
ResolveAlias(target, depth, maxDepth, used, st, nest) ==
    LET found == FindNode(st.nodes, target)
    IN  IF found # Undefined
        THEN [st |-> st, ret |-> found]
        ELSE ProcessNode(target, depth, maxDepth, used, st, nest + 1)

\* node.subThoughts.forEach(subThought => ...), from the i-th sub-thought on
ProcessSubs(node, d3Node, i, depth, maxDepth, used, st, nest) ==
    IF i > Len(subThoughts[node]) THEN st
    ELSE LET r  == ProcessNode(subThoughts[node][i], depth + 1, maxDepth, used, st, nest + 1)
             s2 == IF r.ret # Undefined
                   THEN [r.st EXCEPT !.links = Append(@, SubLink(d3Node, r.ret))]
                   ELSE r.st
         IN  ProcessSubs(node, d3Node, i + 1, depth, maxDepth, used, s2, nest)

\* const processNode = (node, depth = 0) => { ... }; nest is the number of
\* processNode frames on the stack.  Returns the pass state and the return
\* value (a D3Node or Undefined).
ProcessNode(node, depth, maxDepth, used, st, nest) ==
    IF st.overflow THEN [st |-> st, ret |-> Undefined]
    ELSE IF DepthExceeded(depth, maxDepth) THEN [st |-> st, ret |-> Undefined]
    ELSE IF nest > MaxStack THEN [st |-> [st EXCEPT !.overflow = TRUE], ret |-> Undefined]
    ELSE
      LET d3Node == MakeD3Node(node, used, st.nodes)
          s1 == [st EXCEPT !.nodes = Append(@, d3Node),
                           !.peak = IF nest > @ THEN nest ELSE @]
          s2 == ProcessSubs(node, d3Node, 1, depth, maxDepth, used, s1, nest)
          s3 == IF aliasNode[node] # None /\ ~LinkExists(s2.links, node, aliasNode[node])
                THEN LET r == ResolveAlias(aliasNode[node], depth, maxDepth, used, s2, nest)
                     IN  IF r.ret # Undefined
                         THEN [r.st EXCEPT !.links = Append(@, AliasLink(d3Node, r.ret))]
                         ELSE r.st
                ELSE s2
      IN  [st |-> s3, ret |-> IF s3.overflow THEN Undefined ELSE d3Node]

\* rootThoughts.forEach(rootThought => processNode(rootThought))
RECURSIVE ProcessRoots(_, _, _, _, _)
ProcessRoots(roots, i, maxDepth, used, st) ==
    IF i > Len(roots) THEN st
    ELSE ProcessRoots(roots, i + 1, maxDepth, used,
                      ProcessNode(roots[i], 0, maxDepth, used, st, 1).st)

\* The body of the flatten effect up to setNodes/setLinks.
Flatten(roots, maxDepth, used) == ProcessRoots(roots, 1, maxDepth, used, EmptyPass)

\* ------------------------------------------------------ component state
Null == 0 - 1      \* null / undefined coordinate

EmptyDom == [nodes |-> <<>>, links |-> <<>>, sim |-> 0]

AlphaHot == 3      \* alphaTarget(0.3), in tenths

\* The points of the canvas the model places nodes and pointers at.
Points == 0..MaxPoint

PX(p) == p

PY(p) == MaxPoint - p

NoFun == [k \in {} |-> 0]

UIInit ==
    /\ mounted = "no"
    /\ layoutPending = FALSE
    /\ heap = NoFun
    /\ dom = EmptyDom
    /\ sims = NoFun
    /\ cur = 0
    /\ gestures = NoFun

Oids(d3Nodes) == {d3Nodes[k].oid : k \in 1..Len(d3Nodes)}

Restrict(f, S) == [k \in S \cap DOMAIN f |-> f[k]]

\* A D3Node as the object literal leaves it: no x, y, fx, fy yet.
FreshFields == [x |-> Null, y |-> Null, fx |-> Null, fy |-> Null]

\* Simulations something can still reach: the one the cleanup will stop, the
\* one the drawn elements' handlers close over, those a gesture in progress
\* closes over, and those whose timer is running.
LiveSims(simsX, curX, domX, gestX) ==
    {s \in DOMAIN simsX :
        \/ s = curX
        \/ s = domX.sim
        \/ simsX[s].running
        \/ \E o \in DOMAIN gestX : gestX[o].sim = s}

\* A simulation can run again only through a handler of a drawn element.
CanRun(simsX, domX, s) == simsX[s].running \/ s = domX.sim

\* D3Node objects something can still reach.
LiveOids(simsX, nodesX, domX, gestX, liveSims) ==
    Oids(nodesX) \cup Oids(domX.nodes) \cup DOMAIN gestX
      \cup UNION {simsX[s].nodes : s \in {t \in liveSims : CanRun(simsX, domX, t)}}

\* Rank of k in S: objects are named by their age among the reachable ones.
Rank(S, k) == IF k = 0 THEN 0 ELSE Cardinality({j \in S : j <= k})

Unrank(S, r) == CHOOSE k \in S : Rank(S, k) = r

RenNode(L, n) == [n EXCEPT !.oid = Rank(L, @)]

RenNodes(L, d3Nodes) == [i \in 1..Len(d3Nodes) |-> RenNode(L, d3Nodes[i])]

RenLinks(L, d3Links) ==
    [i \in 1..Len(d3Links) |->
        [d3Links[i] EXCEPT !.source = RenNode(L, @), !.target = RenNode(L, @)]]

\* Only a handler of a drawn element reads a node's x and y (dragStarted), so
\* the position of an object that is not drawn is data nothing reads again.
Kept(fields, drawn) == IF drawn THEN fields ELSE [fields EXCEPT !.x = Null, !.y = Null]

\* The next state of the component: the given values with the unreachable
\* objects and simulations dropped and the rest named by age.
Collect(heapX, simsX, nodesX, linksX, domX, curX, gestX) ==
    LET LS == LiveSims(simsX, curX, domX, gestX)
        L  == LiveOids(simsX, nodesX, domX, gestX, LS)
    IN  /\ sims' = [r \in 1..Cardinality(LS) |->
                      LET s == Unrank(LS, r)
                      IN  [simsX[s] EXCEPT !.nodes =
                             IF CanRun(simsX, domX, s)
                             THEN {Rank(L, o) : o \in @} ELSE {}]]
        /\ heap' = [r \in 1..Cardinality(L) |->
                      LET o == Unrank(L, r)
                      IN  Kept(heapX[o], o \in Oids(domX.nodes))]
        /\ nodes' = RenNodes(L, nodesX)
        /\ links' = RenLinks(L, linksX)
        /\ dom' = [nodes |-> RenNodes(L, domX.nodes), links |-> RenLinks(L, domX.links),
                   sim |-> Rank(LS, domX.sim)]
        /\ cur' = Rank(LS, curX)
        /\ gestures' = [r \in {Rank(L, o) : o \in DOMAIN gestX} |->
                          LET o == Unrank(L, r)
                          IN  [gestX[o] EXCEPT !.sim = Rank(LS, @)]]

NewSimId == Min((1..(Cardinality(DOMAIN sims) + 1)) \ DOMAIN sims)

\* return () => { simulation.stop(); }  -- the cleanup of the last run that
\* registered one
Cleanup(simsX) ==
    IF cur # 0 THEN [simsX EXCEPT ![cur].running = FALSE, ![cur].disposed = TRUE]
    ELSE simsX

\* if (!svgRef.current || nodes.length === 0) return;
LayoutSkips(d3Nodes) == Len(d3Nodes) = 0

\* d3.forceSimulation(nodes)...on('tick', ticked): a running simulation with
\* alphaTarget 0 over the node objects; nodes without a position get one.
NewSimulation(d3Nodes) ==
    [nodes |-> Oids(d3Nodes), running |-> TRUE, alphaTarget |-> 0, active |-> 0,
     disposed |-> FALSE]

\* One run of the layout effect with the state (nodes, links): the previous
\* run's cleanup, then the effect body.
LayoutEffect ==
    LET simsC == Cleanup(sims)
    IN  IF LayoutSkips(nodes)
        THEN Collect(heap, simsC, nodes, links, dom, 0, gestures)
        ELSE LET s == NewSimId
                 zombies == {k \in DOMAIN simsC : simsC[k].running}
                 simsN == [k \in DOMAIN simsC \cup {s} |->
                             IF k = s THEN NewSimulation(nodes) ELSE simsC[k]]
                 heapN == [o \in DOMAIN heap |->
                             IF o \in Oids(nodes) /\ heap[o].x = Null
                             THEN [heap[o] EXCEPT !.x = PX(0), !.y = PY(0)]
                             ELSE heap[o]]
                 domN == [nodes |-> nodes, links |-> links, sim |-> s]
             IN  /\ Cardinality(zombies) < MaxZombies
                 /\ Collect(heapN, simsN, nodes, links, domN, s, gestures)

\* The flatten effect: a pass over (roots, maxDepth), then setNodes/setLinks.
FlattenEffect(roots, maxDepth) ==
    LET st == Flatten(roots, maxDepth, DOMAIN heap)
        d3Nodes == IF st.overflow THEN nodes ELSE st.nodes
        d3Links == IF st.overflow THEN links ELSE st.links
        heapN == [o \in DOMAIN heap \cup Oids(d3Nodes) |->
                    IF o \in DOMAIN heap THEN heap[o] ELSE FreshFields]
    IN  /\ overflow' = st.overflow
        /\ stackPeak' = st.peak
        /\ passes' = "done"
        /\ layoutPending' = TRUE
        /\ Collect(heapN, sims, d3Nodes, d3Links, dom, cur, gestures)

\* First commit: the flatten effect runs, then the layout effect, which
\* still sees nodes = [] and returns at once.
Mount ==
    /\ mounted = "no"
    /\ mounted' = "yes"
    /\ FlattenEffect(rootThoughts, maxVisibleDepth)
    /\ UNCHANGED <<subThoughts, aliasNode, rootThoughts, maxVisibleDepth>>

\* The parent passes a new rootThoughts or maxVisibleDepth.
ChangeForest(roots, maxDepth) ==
    /\ mounted = "yes"
    /\ rootThoughts' = roots
    /\ maxVisibleDepth' = maxDepth
    /\ FlattenEffect(roots, maxDepth)
    /\ UNCHANGED <<subThoughts, aliasNode, mounted>>

pvars == <<subThoughts, aliasNode, rootThoughts, maxVisibleDepth, passes, overflow,
           stackPeak>>

\* The re-render after setNodes/setLinks: the layout effect runs again.
RunLayoutEffect ==
    /\ mounted = "yes"
    /\ layoutPending
    /\ layoutPending' = FALSE
    /\ LayoutEffect
    /\ UNCHANGED <<pvars, mounted>>

\* width, height, highlightedNodeId, onNodeClick or onNodeHover changes: the
\* layout effect runs again with the latest nodes and links.
ChangeLayoutInput ==
    /\ mounted = "yes"
    /\ layoutPending' = FALSE
    /\ LayoutEffect
    /\ UNCHANGED <<pvars, mounted>>

\* Unmount: the cleanup runs, the svg and the component state go away.
Unmount ==
    /\ mounted = "yes"
    /\ mounted' = "gone"
    /\ layoutPending' = FALSE
    /\ Collect(heap, Cleanup(sims), <<>>, <<>>, EmptyDom, 0, gestures)
    /\ UNCHANGED pvars

\* event.subject.fx = event.subject.x; event.subject.fy = event.subject.y;
PinAtStart(fields) == [fields EXCEPT !.fx = fields.x, !.fy = fields.y]

\* event.subject.fx = event.x; event.subject.fy = event.y;
PinAt(fields, ex, ey) == [fields EXCEPT !.fx = ex, !.fy = ey]

\* (mutant) the release leaves fy set
UnpinXOnly(fields) == [fields EXCEPT !.fx = Null]

\* event.subject.fx = null; event.subject.fy = null;
Unpin(fields) == [fields EXCEPT !.fx = Null, !.fy = Null]

\* if (!event.active) simulation.alphaTarget(0.3).restart();
HeatOnStart(sim) ==
    IF sim.active = 0 THEN [sim EXCEPT !.alphaTarget = AlphaHot, !.running = TRUE]
    ELSE sim

\* if (!event.active) simulation.alphaTarget(0);   (active: gestures left)
CoolOnEnd(sim, active) ==
    IF active = 0 THEN [sim EXCEPT !.alphaTarget = 0] ELSE sim

\* dragStarted: a pointer goes down on the drawn element of node object o.
\* The handler is the closure of the run that drew the element; event.active
\* counts the other gestures of that run's drag behaviour.
DragStart(o) ==
    /\ mounted = "yes"
    /\ o \in Oids(dom.nodes)
    /\ o \notin DOMAIN gestures
    /\ Cardinality(DOMAIN gestures) < MaxPointers
    /\ LET s == dom.sim
           simsN == [sims EXCEPT ![s] = [HeatOnStart(@) EXCEPT !.active = @ + 1]]
           heapN == [heap EXCEPT ![o] = PinAtStart(@)]
           gestN == [k \in DOMAIN gestures \cup {o} |->
                       IF k = o THEN [sim |-> s, x |-> heap[o].x, y |-> heap[o].y]
                       ELSE gestures[k]]
       IN  Collect(heapN, simsN, nodes, links, dom, cur, gestN)
    /\ UNCHANGED <<pvars, mounted, layoutPending>>

\* dragged: the pointer of the gesture on o moves to the point p.
DragMove(o, p) ==
    /\ o \in DOMAIN gestures
    /\ LET ex == PX(p)
           ey == PY(p)
           gestN == [gestures EXCEPT ![o].x = ex, ![o].y = ey]
           heapN == [heap EXCEPT ![o] = PinAt(@, ex, ey)]
       IN  Collect(heapN, sims, nodes, links, dom, cur, gestN)
    /\ UNCHANGED <<pvars, mounted, layoutPending>>

\* dragEnded: the pointer of the gesture on o goes up.
DragEnd(o) ==
    /\ o \in DOMAIN gestures
    /\ LET s == gestures[o].sim
           left == sims[s].active - 1
           simsN == [sims EXCEPT ![s] = [CoolOnEnd(@, left) EXCEPT !.active = left]]
           heapN == [heap EXCEPT ![o] = Unpin(@)]
           gestN == Restrict(gestures, DOMAIN gestures \ {o})
       IN  Collect(heapN, simsN, nodes, links, dom, cur, gestN)
    /\ UNCHANGED <<pvars, mounted, layoutPending>>

\* Where the forces carry a free node in one tick.  The simulation is
\* deterministic; its motion is abstracted to a walk through the points.
Moved(fields) ==
    LET p == (fields.x + 1) % (MaxPoint + 1)
    IN  [x |-> PX(p), y |-> PY(p)]

\* One tick of the running simulation s: a pinned node sits at (fx, fy), the
\* forces move every other node of the simulation.
Tick(s) ==
    /\ s \in DOMAIN sims
    /\ sims[s].running
    /\ LET heapN == [o \in DOMAIN heap |->
                       IF o \in sims[s].nodes /\ heap[o].x # Null
                       THEN [heap[o] EXCEPT
                               !.x = IF heap[o].fx # Null THEN heap[o].fx ELSE Moved(heap[o]).x,
                               !.y = IF heap[o].fy # Null THEN heap[o].fy ELSE Moved(heap[o]).y]
                       ELSE heap[o]]
       IN  /\ heapN # heap
           /\ Collect(heapN, sims, nodes, links, dom, cur, gestures)
    /\ UNCHANGED <<pvars, mounted, layoutPending>>

\* The simulation s cools below alphaMin and stops its timer; with a raised
\* alphaTarget it never does.
SimCool(s) ==
    /\ s \in DOMAIN sims
    /\ sims[s].running
    /\ sims[s].alphaTarget = 0
    /\ Collect(heap, [sims EXCEPT ![s].running = FALSE], nodes, links, dom, cur, gestures)
    /\ UNCHANGED <<pvars, mounted, layoutPending>>

\* ------------------------------------------------------------- the forest
\* subThoughts is a tree (no node has two tree parents, no cycles).  The
\* flattening compares ids for equality only, so ids may be renamed: every
\* ordered forest is, up to renaming, one whose ids are numbered in depth-first
\* preorder (the parent of n is n - 1 or one of its ancestors, siblings in
\* increasing order).  aliasNode and rootThoughts range over everything, so
\* drawing these forests loses no case.
RECURSIVE AncestorsOrSelf(_, _)
AncestorsOrSelf(p, n) == IF n = 0 THEN {} ELSE {n} \cup AncestorsOrSelf(p, p[n])

ParentMaps ==
    {p \in [Ids -> 0..NumIds] :
        \A n \in Ids : p[n] = 0 \/ (n > 1 /\ p[n] \in AncestorsOrSelf(p, n - 1))}

SubsOf(p) == [n \in Ids |-> SortedSeq({c \in Ids : p[c] = n})]

Parent(n) == IF \E p \in Ids : n \in Range(subThoughts[p])
             THEN CHOOSE p \in Ids : n \in Range(subThoughts[p])
             ELSE None

InitFlatten ==
    /\ \E p \in ParentMaps : subThoughts = SubsOf(p)
    /\ aliasNode \in [Ids -> Ids \cup {None}]
    /\ rootThoughts \in SeqsUpTo(Ids, MaxRoots)
    /\ maxVisibleDepth \in 0..MaxDepth
    /\ nodes = <<>>
    /\ links = <<>>
    /\ passes = "none"
    /\ overflow = FALSE
    /\ stackPeak = 0
    /\ UIInit

\* useEffect(() => {...; setNodes(d3Nodes); setLinks(d3Links)}, [rootThoughts, maxVisibleDepth])
FlattenPass ==
    /\ passes = "none"
    /\ LET st == Flatten(rootThoughts, maxVisibleDepth, {})
       IN  /\ overflow' = st.overflow
           /\ stackPeak' = st.peak
           /\ nodes' = IF st.overflow THEN nodes ELSE st.nodes
           /\ links' = IF st.overflow THEN links ELSE st.links
    /\ passes' = "done"
    /\ UNCHANGED <<subThoughts, aliasNode, rootThoughts, maxVisibleDepth>>
    /\ UNCHANGED uvars

NextFlatten == FlattenPass

\* The component on a small forest: node 1 owns node 2, which refers back to
\* it; the parent passes no root or node 1, and a depth of 0 or 1.
UIProps == {[roots |-> <<>>, depth |-> 0], [roots |-> <<1>>, depth |-> 0],
            [roots |-> <<1>>, depth |-> 1]}

InitUI ==
    /\ subThoughts = SubsOf([n \in Ids |-> IF n = 2 THEN 1 ELSE 0])
    /\ aliasNode = [n \in Ids |-> IF n = 2 THEN 1 ELSE None]
    /\ \E pr \in UIProps : rootThoughts = pr.roots /\ maxVisibleDepth = pr.depth
    /\ nodes = <<>>
    /\ links = <<>>
    /\ passes = "none"
    /\ overflow = FALSE
    /\ stackPeak = 0
    /\ UIInit

NextUI ==
    \/ Mount
    \/ \E pr \in UIProps : ChangeForest(pr.roots, pr.depth)
    \/ RunLayoutEffect
    \/ ChangeLayoutInput
    \/ Unmount
    \/ \E o \in DOMAIN heap : DragStart(o)
    \/ \E o \in DOMAIN heap, p \in Points : DragMove(o, p)
    \/ \E o \in DOMAIN heap : DragEnd(o)
    \/ \E s \in DOMAIN sims : Tick(s)
    \/ \E s \in DOMAIN sims : SimCool(s)

Spec == InitUI /\ [][NextUI]_vars

SpecFlatten == InitFlatten /\ [][NextFlatten]_vars

\* ---------------------------------------------- properties of one flatten pass
Flattened == passes = "done" /\ ~overflow

OutIds == {nodes[k].id : k \in 1..Len(nodes)}

RootIds == Range(rootThoughts)

Count(id) == Cardinality({k \in 1..Len(nodes) : nodes[k].id = id})

\* ids reachable from the ids in S through aliasNode pointers alone
RECURSIVE AliasClosure(_)
AliasClosure(S) ==
    LET T == S \cup {aliasNode[n] : n \in {m \in S : aliasNode[m] # None}}
    IN  IF T = S THEN S ELSE AliasClosure(T)

\* ids reachable from the ids in S through subThoughts edges alone
RECURSIVE SubClosure(_)
SubClosure(S) ==
    LET T == S \cup UNION {Range(subThoughts[n]) : n \in S}
    IN  IF T = S THEN S ELSE SubClosure(T)

\* C1: one flatten pass yields at most one graph node per ThoughtNode id.
C1_NoDuplicateNodes ==
    Flattened => \A i, j \in 1..Len(nodes) : nodes[i].id = nodes[j].id => i = j

\* C2: one flatten pass yields at most one link between any unordered pair of
\* node ids.
C2_NoDuplicateLinks ==
    Flattened =>
        \A i, j \in 1..Len(links) :
            {links[i].source.id, links[i].target.id}
              = {links[j].source.id, links[j].target.id} => i = j

\* C3: with subThoughts a tree and arbitrary aliasNode pointers the pass
\* terminates: the recursion never exhausts the stack, it is never deeper
\* than one frame per tree edge and per alias target, and the lists are finite.
C3_Terminates ==
    passes = "done" =>
        /\ ~overflow
        /\ stackPeak <= 2 * NumIds - 1
        /\ Len(links) <= Len(nodes) * 2

C3_Witness ==
    /\ Flattened
    /\ OutIds = Ids
    /\ \A n \in Ids : aliasNode[n] # None /\ aliasNode[n] # n
    /\ \E n \in Ids : aliasNode[n] # None /\ aliasNode[n] = Parent(n)
    /\ \E n \in Ids : aliasNode[aliasNode[n]] = n

\* C4 (as claimed): with maxVisibleDepth = 0 no node that is a child of some
\* node appears in the output, unless it is itself a root.
C4_OnlyRoots ==
    (Flattened /\ maxVisibleDepth = 0) =>
        \A k \in 1..Len(nodes) : nodes[k].id \in RootIds \/ Parent(nodes[k].id) = None

\* C4 (amended): with maxVisibleDepth = 0 the output holds exactly the roots
\* and the nodes reached from a root through aliasNode pointers alone, and no
\* link comes from a subThoughts edge.
C4_RootsAndAliases ==
    (Flattened /\ maxVisibleDepth = 0) =>
        /\ OutIds = AliasClosure(RootIds)
        /\ \A k \in 1..Len(links) : links[k].isAlias

C4_Witness ==
    /\ Flattened
    /\ maxVisibleDepth = 0
    /\ \E k \in 1..Len(nodes) : nodes[k].id \notin RootIds /\ Parent(nodes[k].id) # None
    /\ \E n \in OutIds : subThoughts[n] # <<>>

\* C5: an alias target that is no root and not reachable from a root through
\* subThoughts edges appears exactly once when its aliasing node is in the output.
C5_AliasTargetOnce ==
    Flattened =>
        \A a \in OutIds :
            LET b == aliasNode[a]
            IN  (b # None /\ b \notin SubClosure(RootIds)) => Count(b) = 1

\* C9: every link joins two objects of the node list; a link with isAlias =
\* FALSE goes from a node to one of its subThoughts, a link with isAlias = TRUE
\* from a node to its aliasNode.
C9_LinksWellFormed ==
    Flattened =>
        \A k \in 1..Len(links) :
            /\ links[k].source \in Range(nodes)
            /\ links[k].target \in Range(nodes)
            /\ links[k].isAlias => aliasNode[links[k].source.id] = links[k].target.id
            /\ ~links[k].isAlias => links[k].target.id \in Range(subThoughts[links[k].source.id])

C9_Witness ==
    /\ Flattened
    /\ \E k \in 1..Len(links) : links[k].isAlias /\ links[k].source.id # links[k].target.id
    /\ \E k \in 1..Len(links) : ~links[k].isAlias
    /\ \E n \in OutIds : \E c \in Range(subThoughts[n]) : c \notin OutIds

\* ------------------------------------------ properties of the component
Running == {s \in DOMAIN sims : sims[s].running}

\* C6: a node object has a fixed position exactly while a drag of it is in
\* progress, and then it is the position the drag last reported (the node's
\* own position at drag-start, the pointer position at each drag event).
C6_PinnedWhileDragged ==
    \A o \in DOMAIN heap :
        IF o \in DOMAIN gestures
        THEN /\ heap[o].fx # Null /\ heap[o].fx = gestures[o].x
             /\ heap[o].fy # Null /\ heap[o].fy = gestures[o].y
        ELSE heap[o].fx = Null /\ heap[o].fy = Null

C6_Witness ==
    \E o \in DOMAIN gestures :
        /\ o \in Oids(dom.nodes)
        /\ heap[o].fx # Null
        /\ heap[o].fx # heap[o].x
        /\ \E q \in DOMAIN heap \ {o} : heap[q].x # Null /\ heap[q].fx = Null

\* C7: at most one simulation is running, none is running after unmount, and
\* a simulation whose cleanup has run is never running again.
C7_OneLiveSimulation ==
    /\ Cardinality(Running) <= 1
    /\ mounted = "gone" => Running = {}
    /\ \A s \in DOMAIN sims : ~(sims[s].disposed /\ sims[s].running)

\* C8: the current simulation's alpha target is 0.3 if at least one drag is
\* in progress and 0 if none is.
C8_AlphaTracksDrags ==
    cur # 0 => sims[cur].alphaTarget = IF DOMAIN gestures # {} THEN AlphaHot ELSE 0

\* C10: once the flatten effect and the layout effect have both run, the
\* drawn node and link elements are exactly the current nodes and links.
C10_DrawnMatchesState ==
    (mounted = "yes" /\ ~layoutPending) => (dom.nodes = nodes /\ dom.links = links)

====
